---- MODULE Spec2Model ----
(***************************************************************************)
(* git-together: the active-author roster kept in a string-keyed config    *)
(* store, its rotation, and the author/committer attribution of a commit.  *)
(* A string is the sequence of its chars, a char being its Unicode code    *)
(* point (78 is 'N', 5760 is U+1680), so that split, join and trim are     *)
(* computed on characters as the code computes them.                       *)
(***************************************************************************)
EXTENDS Integers, Sequences, FiniteSets, TLC

VARIABLES config, cmd, last, rotBase, rotCount

vars == <<config, cmd, last, rotBase, rotCount>>

(* ---------------------------- bounds ----------------------------------- *)

\* longest list of initials handed to set_active / get_authors
MaxInits == 2

\* longest roster the store holds when the program starts
MaxRoster == 3

\* longest raw author record handed to author() in SpecAuthor
MaxRawLen == 5

(* ---------------------------- strings ---------------------------------- *)

EmptyStr == <<>>

\* ';', the separator of a raw author record
SEMICOLON == 59

\* '+', the separator of the stored roster
PLUS == 43

\* '@', the sign of a full address
AT == 64

\* "domain", "active", "authors."
kDomain == <<100, 111, 109, 97, 105, 110>>
kActive == <<97, 99, 116, 105, 118, 101>>
kAuthorsPrefix == <<97, 117, 116, 104, 111, 114, 115, 46>>

\* str::is_empty
IsEmpty(s) == Len(s) = 0

\* str::contains(char)
Contains(s, c) == \E i \in 1..Len(s) : s[i] = c

\* position of the first occurrence of c in s, 0 when there is none
FirstIndex(s, c) ==
  IF Contains(s, c)
  THEN CHOOSE i \in 1..Len(s) : s[i] = c /\ \A j \in 1..(i - 1) : s[j] # c
  ELSE 0

\* str::split(char): every occurrence of c separates two parts; a string
\* without c (the empty string included) is one part
RECURSIVE Split(_, _)
Split(s, c) ==
  LET i == FirstIndex(s, c)
  IN IF i = 0
     THEN <<s>>
     ELSE <<SubSeq(s, 1, i - 1)>> \o Split(SubSeq(s, i + 1, Len(s)), c)

\* [&str]::join(sep)
RECURSIVE Join(_, _)
Join(parts, sep) ==
  IF Len(parts) = 0 THEN EmptyStr
  ELSE IF Len(parts) = 1 THEN parts[1]
  ELSE parts[1] \o sep \o Join(Tail(parts), sep)

\* the code points with the Unicode White_Space property, the ones
\* char::is_whitespace accepts: U+0009..U+000D, U+0020, U+0085, U+00A0,
\* U+1680, U+2000..U+200A, U+2028, U+2029, U+202F, U+205F, U+3000
WhiteSpace ==
  (9..13) \cup {32, 133, 160, 5760} \cup (8192..8202)
    \cup {8232, 8233, 8239, 8287, 12288}

\* char::is_whitespace, the test str::trim applies at both ends
IsWhitespace(c) == c \in WhiteSpace

\* str::trim: drops leading and trailing whitespace
RECURSIVE TrimStart(_)
TrimStart(s) ==
  IF Len(s) > 0 /\ IsWhitespace(s[1]) THEN TrimStart(Tail(s)) ELSE s

RECURSIVE TrimEnd(_)
TrimEnd(s) ==
  IF Len(s) > 0 /\ IsWhitespace(s[Len(s)])
  THEN TrimEnd(SubSeq(s, 1, Len(s) - 1))
  ELSE s

Trim(s) == TrimEnd(TrimStart(s))

\* format!("authors.{}", init)
AuthorKey(init) == kAuthorsPrefix \o init

\* format!("{}@{}", email_seed, domain)
FormatEmail(seed, domain) == seed \o <<AT>> \o domain

(* ---------------------------- results ---------------------------------- *)

NoErr == [kind |-> "None", arg |-> EmptyStr]
ErrMsg(name) == [kind |-> "Msg", arg |-> name]
ErrAuthorNotFound(init) == [kind |-> "AuthorNotFound", arg |-> init]
ErrInvalidAuthor(raw) == [kind |-> "InvalidAuthor", arg |-> raw]

NoAuthor == [name |-> EmptyStr, email |-> EmptyStr]

(* ---------------------------- the store -------------------------------- *)

\* Config::get of the in-memory store: the value, or an error naming the key
ConfigGet(cfg, name) ==
  IF name \in DOMAIN cfg
  THEN [ok |-> TRUE, val |-> cfg[name], err |-> NoErr]
  ELSE [ok |-> FALSE, val |-> EmptyStr, err |-> ErrMsg(name)]

\* Config::set of the in-memory store: insert or overwrite, never fails
ConfigSet(cfg, name, value) ==
  [k \in DOMAIN cfg \cup {name} |-> IF k = name THEN value ELSE cfg[k]]

(* ---------------------------- AuthorResolver --------------------------- *)

\* a plausible slip: the domain is appended even when the seed is an address
author_always_domain(domain, raw) ==
  LET split == Split(raw, SEMICOLON)
  IN IF Len(split) < 2 \/ IsEmpty(Trim(split[1])) \/ IsEmpty(Trim(split[2]))
     THEN [ok |-> FALSE, val |-> NoAuthor, err |-> ErrInvalidAuthor(raw)]
     ELSE [ok |-> TRUE,
           val |-> [name |-> Trim(split[1]),
                    email |-> FormatEmail(Trim(split[2]), domain)],
           err |-> NoErr]

\* GitTogether::author
author(domain, raw) ==
  LET split == Split(raw, SEMICOLON)
  IN IF Len(split) < 2
     THEN [ok |-> FALSE, val |-> NoAuthor, err |-> ErrInvalidAuthor(raw)]
     ELSE LET name == Trim(split[1])
          IN IF IsEmpty(name)
             THEN [ok |-> FALSE, val |-> NoAuthor, err |-> ErrInvalidAuthor(raw)]
             ELSE LET email_seed == Trim(split[2])
                  IN IF IsEmpty(email_seed)
                     THEN [ok |-> FALSE, val |-> NoAuthor,
                           err |-> ErrInvalidAuthor(raw)]
                     ELSE LET email == IF Contains(email_seed, AT)
                                       THEN email_seed
                                       ELSE FormatEmail(email_seed, domain)
                          IN [ok |-> TRUE,
                              val |-> [name |-> name, email |-> email],
                              err |-> NoErr]

(* ---------------------------- get_authors ------------------------------ *)

\* the closure get_authors maps over the initials: fetch authors.<init>,
\* re-signal a missing key as AuthorNotFound, reject the empty record, parse
LookupAuthor(cfg, domain, init) ==
  LET got == ConfigGet(cfg, AuthorKey(init))
  IN IF ~got.ok
     THEN [ok |-> FALSE, val |-> NoAuthor, err |-> ErrAuthorNotFound(init)]
     ELSE IF IsEmpty(got.val)
     THEN [ok |-> FALSE, val |-> NoAuthor, err |-> ErrInvalidAuthor(got.val)]
     ELSE author(domain, got.val)

\* collect() into Result<Vec<_>>: the lazy map is driven left to right and
\* stops at the first Err; reads is the sequence of keys fetched so far
RECURSIVE CollectAuthors(_, _, _, _, _, _)
CollectAuthors(cfg, domain, inits, i, acc, reads) ==
  IF i > Len(inits)
  THEN [ok |-> TRUE, val |-> acc, err |-> NoErr, reads |-> reads]
  ELSE LET r == LookupAuthor(cfg, domain, inits[i])
           seen == Append(reads, AuthorKey(inits[i]))
       IN IF r.ok
          THEN CollectAuthors(cfg, domain, inits, i + 1, Append(acc, r.val), seen)
          ELSE [ok |-> FALSE, val |-> <<>>, err |-> r.err, reads |-> seen]

\* a plausible slip: every initial is looked up before the outcome is decided,
\* and the error reported is the last one met
RECURSIVE CollectAll(_, _, _, _, _, _, _)
CollectAll(cfg, domain, inits, i, acc, reads, err) ==
  IF i > Len(inits)
  THEN IF err = NoErr
       THEN [ok |-> TRUE, val |-> acc, err |-> NoErr, reads |-> reads]
       ELSE [ok |-> FALSE, val |-> <<>>, err |-> err, reads |-> reads]
  ELSE LET r == LookupAuthor(cfg, domain, inits[i])
           seen == Append(reads, AuthorKey(inits[i]))
       IN IF r.ok
          THEN CollectAll(cfg, domain, inits, i + 1, Append(acc, r.val), seen, err)
          ELSE CollectAll(cfg, domain, inits, i + 1, acc, seen, r.err)

get_authors_eager(cfg, inits) ==
  LET domain == ConfigGet(cfg, kDomain)
  IN IF ~domain.ok
     THEN [ok |-> FALSE, val |-> <<>>, err |-> domain.err, reads |-> <<kDomain>>]
     ELSE CollectAll(cfg, domain.val, inits, 1, <<>>, <<kDomain>>, NoErr)

\* GitTogether::get_authors
get_authors(cfg, inits) ==
  LET domain == ConfigGet(cfg, kDomain)
  IN IF ~domain.ok
     THEN [ok |-> FALSE, val |-> <<>>, err |-> domain.err, reads |-> <<kDomain>>]
     ELSE CollectAuthors(cfg, domain.val, inits, 1, <<>>, <<kDomain>>)

(* ---------------------------- ActiveRoster ----------------------------- *)

\* a plausible slip: the roster is written before it is validated
set_active_write_first(cfg, inits) ==
  LET r == get_authors(cfg, inits)
  IN [config |-> ConfigSet(cfg, kActive, Join(inits, <<PLUS>>)),
      ok |-> r.ok, err |-> r.err]

\* GitTogether::set_active: validate, and only then store the joined roster
set_active(cfg, inits) ==
  LET r == get_authors(cfg, inits)
  IN IF r.ok
     THEN [config |-> ConfigSet(cfg, kActive, Join(inits, <<PLUS>>)),
           ok |-> TRUE, err |-> NoErr]
     ELSE [config |-> cfg, ok |-> FALSE, err |-> r.err]

\* GitTogether::get_active
get_active(cfg) ==
  LET active == ConfigGet(cfg, kActive)
  IN IF active.ok
     THEN [ok |-> TRUE, val |-> Split(active.val, PLUS), err |-> NoErr]
     ELSE [ok |-> FALSE, val |-> <<>>, err |-> active.err]

\* a plausible slip: the last entry is moved to the front
RotateRight(inits) ==
  IF Len(inits) # 0
  THEN <<inits[Len(inits)]>> \o SubSeq(inits, 1, Len(inits) - 1)
  ELSE inits

\* a plausible slip: the first entry is removed and never pushed back
RotateDrop(inits) ==
  IF Len(inits) # 0 THEN Tail(inits) ELSE inits

\* the body of rotate_active's closure: remove(0) then push
RotateLeft(inits) ==
  IF Len(inits) # 0
  THEN Append(Tail(inits), Head(inits))
  ELSE inits

\* GitTogether::rotate_active
rotate_active(cfg) ==
  LET active == get_active(cfg)
  IN IF active.ok
     THEN set_active(cfg, RotateLeft(active.val))
     ELSE [config |-> cfg, ok |-> FALSE, err |-> active.err]

(* ---------------------------- CommitAttributor ------------------------- *)

\* Command::env and Command::arg on the builder
NewCmd == [env |-> <<>>, args |-> <<>>]
CmdEnv(c, k, v) == [c EXCEPT !.env = (k :> v) @@ c.env]
CmdArg(c, a) == [c EXCEPT !.args = Append(c.args, a)]

\* a plausible slip: the committer is the last entry of the roster
signoff_last(cfg, c) ==
  LET active == ConfigGet(cfg, kActive)
  IN IF ~active.ok
     THEN [ok |-> FALSE, err |-> active.err, cmd |-> c]
     ELSE LET authors == get_authors(cfg, Split(active.val, PLUS))
          IN IF ~authors.ok
             THEN [ok |-> FALSE, err |-> authors.err, cmd |-> c]
             ELSE LET c1 == IF Len(authors.val) >= 1
                            THEN CmdEnv(CmdEnv(c, "GIT_AUTHOR_NAME", authors.val[1].name),
                                        "GIT_AUTHOR_EMAIL", authors.val[1].email)
                            ELSE c
                      k == Len(authors.val)
                      c2 == IF k >= 2
                            THEN CmdArg(CmdEnv(CmdEnv(c1, "GIT_COMMITTER_NAME",
                                                      authors.val[k].name),
                                               "GIT_COMMITTER_EMAIL", authors.val[k].email),
                                        "--signoff")
                            ELSE c1
                  IN [ok |-> TRUE, err |-> NoErr, cmd |-> c2]

\* GitTogether::signoff
signoff(cfg, c) ==
  LET active == ConfigGet(cfg, kActive)
  IN IF ~active.ok
     THEN [ok |-> FALSE, err |-> active.err, cmd |-> c]
     ELSE LET inits == Split(active.val, PLUS)
              authors == get_authors(cfg, inits)
          IN IF ~authors.ok
             THEN [ok |-> FALSE, err |-> authors.err, cmd |-> c]
             ELSE LET c1 == IF Len(authors.val) >= 1
                            THEN CmdEnv(CmdEnv(c, "GIT_AUTHOR_NAME", authors.val[1].name),
                                        "GIT_AUTHOR_EMAIL", authors.val[1].email)
                            ELSE c
                      c2 == IF Len(authors.val) >= 2
                            THEN CmdArg(CmdEnv(CmdEnv(c1, "GIT_COMMITTER_NAME",
                                                      authors.val[2].name),
                                               "GIT_COMMITTER_EMAIL", authors.val[2].email),
                                        "--signoff")
                            ELSE c1
                  IN [ok |-> TRUE, err |-> NoErr, cmd |-> c2]

(* ---------------------------- the state machine ------------------------ *)

\* initials the callers use: the empty initial, "a" and "b"
Initials == {<<>>, <<97>>, <<98>>}

\* raw records an authors.<initial> key may hold: empty, no separator,
\* a local part needing the domain, a full address:
\* "", "N", "N; e", "M;f@h"
Records ==
  {<<>>, <<78>>, <<78, SEMICOLON, 32, 101>>, <<77, SEMICOLON, 102, AT, 104>>}

\* the empty initial is given one well-formed record when it has any:
\* "E;e@h"
RecordsOf(init) ==
  IF init = EmptyStr THEN {<<69, SEMICOLON, 101, AT, 104>>} ELSE Records

\* the domain "r"
DomainValue == <<114>>

SeqsUpTo(S, n) == UNION {[1..k -> S] : k \in 0..n}

\* lists of initials a caller passes
InitLists == SeqsUpTo(Initials, MaxInits)

\* active strings the store may hold at the start
InitActive == {Join(l, <<PLUS>>) : l \in SeqsUpTo(Initials, MaxRoster)}

\* the store holding domain (when D is non-empty), the records recs and the
\* active string (when A is non-empty)
BuildConfig(D, recs, A) ==
  [k \in {kDomain : d \in D} \cup {AuthorKey(i) : i \in DOMAIN recs}
         \cup {kActive : a \in A} |->
     IF k = kDomain THEN CHOOSE d \in D : TRUE
     ELSE IF k = kActive THEN CHOOSE a \in A : TRUE
     ELSE recs[CHOOSE i \in DOMAIN recs : AuthorKey(i) = k]]

\* rotations counted since the roster was last read or written otherwise
MaxRot == MaxRoster + MaxInits

Roster(cfg) == IF get_active(cfg).ok THEN get_active(cfg).val ELSE <<>>

\* no call in progress, nothing returned
NoCall ==
  [op |-> "none", inits |-> <<>>, raw |-> EmptyStr, domain |-> EmptyStr,
   pre |-> <<>>, ok |-> TRUE, err |-> NoErr, authors |-> <<>>,
   author |-> NoAuthor, roster |-> <<>>, reads |-> <<>>]

Init ==
  /\ \E D \in {{}, {DomainValue}} :
     \E P \in SUBSET Initials :
     \E recs \in {f \in [P -> Records \cup RecordsOf(EmptyStr)] :
                     \A i \in P : f[i] \in RecordsOf(i)} :
     \E A \in {{}} \cup {{a} : a \in InitActive} :
       config = BuildConfig(D, recs, A)
  /\ cmd = NewCmd
  /\ last = NoCall
  /\ rotBase = Roster(config)
  /\ rotCount = 0

\* a caller invokes set_active(inits)
SetActive ==
  /\ last.op = "none"
  /\ \E inits \in InitLists :
       LET r == set_active(config, inits)
       IN /\ config' = r.config
          /\ last' = [NoCall EXCEPT !.op = "set_active", !.inits = inits,
                                    !.pre = config, !.ok = r.ok, !.err = r.err]
          /\ rotBase' = Roster(r.config)
  /\ rotCount' = 0
  /\ UNCHANGED cmd

\* a caller invokes rotate_active()
RotateActive ==
  /\ last.op = "none"
  /\ rotCount < MaxRot
  /\ LET r == rotate_active(config)
     IN /\ config' = r.config
        /\ last' = [NoCall EXCEPT !.op = "rotate_active", !.pre = config,
                                  !.ok = r.ok, !.err = r.err]
        /\ rotCount' = IF r.ok THEN rotCount + 1 ELSE rotCount
  /\ UNCHANGED <<cmd, rotBase>>

\* a caller invokes signoff on a fresh command builder
Signoff ==
  /\ last.op = "none"
  /\ LET r == signoff(config, NewCmd)
     IN /\ cmd' = r.cmd
        /\ last' = [NoCall EXCEPT !.op = "signoff", !.pre = config,
                                  !.ok = r.ok, !.err = r.err]
  /\ rotBase' = Roster(config)
  /\ rotCount' = 0
  /\ UNCHANGED config

\* a caller invokes get_active()
GetActive ==
  /\ last.op = "none"
  /\ LET r == get_active(config)
     IN last' = [NoCall EXCEPT !.op = "get_active", !.pre = config,
                               !.ok = r.ok, !.err = r.err, !.roster = r.val]
  /\ rotBase' = Roster(config)
  /\ rotCount' = 0
  /\ UNCHANGED <<config, cmd>>

\* a caller invokes get_authors(inits)
GetAuthors ==
  /\ last.op = "none"
  /\ \E inits \in InitLists :
       LET r == get_authors(config, inits)
       IN last' = [NoCall EXCEPT !.op = "get_authors", !.inits = inits,
                                 !.pre = config, !.ok = r.ok, !.err = r.err,
                                 !.authors = r.val, !.reads = r.reads]
  /\ rotBase' = Roster(config)
  /\ rotCount' = 0
  /\ UNCHANGED <<config, cmd>>

\* the caller takes the returned value and drops the command builder
Return ==
  /\ last.op # "none"
  /\ last' = NoCall
  /\ cmd' = NewCmd
  /\ UNCHANGED <<config, rotBase, rotCount>>

Next ==
  SetActive \/ RotateActive \/ Signoff \/ GetActive \/ GetAuthors \/ Return

Spec == Init /\ [][Next]_vars

(* ---------------------------- author() on its own ---------------------- *)

\* characters of the raw records author() is applied to: 'N', the
\* separator, three kinds of whitespace (space, tab, U+1680), the address
\* sign
RawChars == {78, SEMICOLON, 32, 9, 5760, AT}

RawStrings == SeqsUpTo(RawChars, MaxRawLen)

\* the domains "r" and "m"
AuthorDomains == {DomainValue, <<109>>}

InitAuthor ==
  /\ \E raw \in RawStrings : \E domain \in AuthorDomains :
       last = [NoCall EXCEPT !.raw = raw, !.domain = domain]
  /\ config = <<>>
  /\ cmd = NewCmd
  /\ rotBase = <<>>
  /\ rotCount = 0

\* author(domain, raw) is applied to the chosen input
AuthorCall ==
  /\ last.op = "none"
  /\ LET r == author(last.domain, last.raw)
     IN last' = [last EXCEPT !.op = "author", !.ok = r.ok, !.err = r.err,
                             !.author = r.val]
  /\ UNCHANGED <<config, cmd, rotBase, rotCount>>

NextAuthor == AuthorCall

SpecAuthor == InitAuthor /\ [][NextAuthor]_vars

(* ---------------------------- properties ------------------------------ *)

\* the initial init cannot be resolved against the store cfg: domain missing,
\* authors.<init> missing, or its record empty or malformed
FailsResolution(cfg, init) ==
  \/ kDomain \notin DOMAIN cfg
  \/ AuthorKey(init) \notin DOMAIN cfg
  \/ cfg[AuthorKey(init)] = EmptyStr
  \/ ~author(cfg[kDomain], cfg[AuthorKey(init)]).ok

AllResolve(cfg, inits) ==
  \A i \in 1..Len(inits) : ~FailsResolution(cfg, inits[i])

\* the Author an initial that resolves stands for
AuthorOf(cfg, init) == author(cfg[kDomain], cfg[AuthorKey(init)]).val

\* the roster a store with an active key holds
StoredRoster(cfg) == Split(cfg[kActive], PLUS)

Distinct(xs) == \A i, j \in 1..Len(xs) : i # j => xs[i] # xs[j]

Count(xs, x) == Cardinality({i \in 1..Len(xs) : xs[i] = x})

\* C1: when some initial handed to set_active fails resolution, set_active
\* returns an error and the whole store, the active key included (its value
\* or its absence), is what it was before the call
C1_ValidateThenWrite ==
  (last.op = "set_active"
     /\ \E i \in 1..Len(last.inits) : FailsResolution(last.pre, last.inits[i]))
  => (~last.ok /\ config = last.pre)

\* a set_active whose first initial resolves and whose second does not, on a
\* store that held a roster
C1_Witness ==
  /\ last.op = "set_active"
  /\ Len(last.inits) = 2
  /\ ~FailsResolution(last.pre, last.inits[1])
  /\ FailsResolution(last.pre, last.inits[2])
  /\ kActive \in DOMAIN last.pre
  /\ last.pre[kActive] # Join(last.inits, <<PLUS>>)

\* C2: after a successful set_active, every initial get_active returns
\* resolves, that is get_authors(get_active()) succeeds
C2_RosterResolves ==
  (last.op = "set_active" /\ last.ok)
  => (get_active(config).ok /\ get_authors(config, get_active(config).val).ok)

\* C3: rotate_active on a stored roster x1..xn (n >= 1) whose initials all
\* resolve succeeds, and get_active then returns x2..xn,x1: same length, same
\* multiset of initials
C3_RotateLeft ==
  (last.op = "rotate_active" /\ kActive \in DOMAIN last.pre
     /\ AllResolve(last.pre, StoredRoster(last.pre)))
  => LET xs == StoredRoster(last.pre)
         n == Len(xs)
         ys == get_active(config).val
     IN /\ n >= 1
        /\ last.ok
        /\ get_active(config).ok
        /\ Len(ys) = n
        /\ \A i \in 1..n : ys[i] = IF i < n THEN xs[i + 1] ELSE xs[1]
        /\ \A x \in {xs[i] : i \in 1..n} : Count(ys, x) = Count(xs, x)

\* a rotation of a resolving roster of three entries, not all alike
C3_Witness ==
  /\ last.op = "rotate_active"
  /\ last.ok
  /\ kActive \in DOMAIN last.pre
  /\ Len(StoredRoster(last.pre)) = 3
  /\ StoredRoster(last.pre)[1] # StoredRoster(last.pre)[3]
  /\ StoredRoster(last.pre)[1] # StoredRoster(last.pre)[2]

\* C4: rotate_active on a store whose active key holds the empty string
\* succeeds, leaves the store unchanged, and get_active returns the empty
\* list (stated for the stores that have a domain, the ones on which the
\* validation of an empty list can succeed)
C4_EmptyRosterNoOp ==
  (last.op = "rotate_active" /\ kActive \in DOMAIN last.pre
     /\ last.pre[kActive] = EmptyStr /\ kDomain \in DOMAIN last.pre)
  => (last.ok /\ config = last.pre /\ get_active(config).val = <<>>)

\* C5: signoff on a stored roster of n >= 1 resolving initials succeeds and
\* sets the author variables from the first entry; with n = 1 nothing else is
\* set or appended; with n >= 2 the committer variables come from the second
\* entry and exactly one --signoff is appended; later entries add nothing, but
\* any entry that fails resolution fails the call and the builder is untouched
C5_SignoffByPosition ==
  (last.op = "signoff" /\ kActive \in DOMAIN last.pre)
  => LET xs == StoredRoster(last.pre)
         n == Len(xs)
     IN IF AllResolve(last.pre, xs)
        THEN /\ n >= 1
             /\ last.ok
             /\ {"GIT_AUTHOR_NAME", "GIT_AUTHOR_EMAIL"} \subseteq DOMAIN cmd.env
             /\ cmd.env["GIT_AUTHOR_NAME"] = AuthorOf(last.pre, xs[1]).name
             /\ cmd.env["GIT_AUTHOR_EMAIL"] = AuthorOf(last.pre, xs[1]).email
             /\ n = 1 =>
                  /\ DOMAIN cmd.env = {"GIT_AUTHOR_NAME", "GIT_AUTHOR_EMAIL"}
                  /\ cmd.args = <<>>
             /\ n >= 2 =>
                  /\ DOMAIN cmd.env =
                       {"GIT_AUTHOR_NAME", "GIT_AUTHOR_EMAIL",
                        "GIT_COMMITTER_NAME", "GIT_COMMITTER_EMAIL"}
                  /\ cmd.env["GIT_COMMITTER_NAME"] = AuthorOf(last.pre, xs[2]).name
                  /\ cmd.env["GIT_COMMITTER_EMAIL"] = AuthorOf(last.pre, xs[2]).email
                  /\ cmd.args = <<"--signoff">>
        ELSE ~last.ok /\ cmd = NewCmd

\* a signoff on a resolving roster of three whose third author is not the
\* committer
C5_Witness ==
  /\ last.op = "signoff"
  /\ last.ok
  /\ kActive \in DOMAIN last.pre
  /\ Len(StoredRoster(last.pre)) = 3
  /\ AuthorOf(last.pre, StoredRoster(last.pre)[3])
       # AuthorOf(last.pre, StoredRoster(last.pre)[2])
  /\ AuthorOf(last.pre, StoredRoster(last.pre)[1])
       # AuthorOf(last.pre, StoredRoster(last.pre)[2])
  /\ cmd.args = <<"--signoff">>

\* C6: signoff on a store with a domain whose active key holds the empty
\* string returns the builder with no variable set and no argument appended
C6_EmptyRosterUntouched ==
  (last.op = "signoff" /\ kActive \in DOMAIN last.pre
     /\ last.pre[kActive] = EmptyStr /\ kDomain \in DOMAIN last.pre)
  => (last.ok /\ DOMAIN cmd.env = {} /\ cmd.args = <<>>)

\* C7: for every list inits that get_authors accepts, set_active(inits)
\* succeeds and get_active then returns exactly inits
C7_RoundTrip ==
  (last.op = "set_active" /\ get_authors(last.pre, last.inits).ok)
  => (last.ok /\ get_active(config).ok /\ get_active(config).val = last.inits)

\* C8: counting successful rotations from a roster of length n: every
\* rotation of a resolving roster succeeds and leaves a resolving roster,
\* after n of them the roster is the original one, and when its initials are
\* pairwise distinct it differs from the original after 1..n-1 of them
C8_RotationPeriod ==
  /\ (last.op = "rotate_active" /\ kActive \in DOMAIN last.pre
        /\ AllResolve(last.pre, StoredRoster(last.pre)))
     => last.ok
  /\ rotCount > 0 =>
       /\ kActive \in DOMAIN config
       /\ AllResolve(config, StoredRoster(config))
       /\ Len(StoredRoster(config)) = Len(rotBase)
       /\ rotCount = Len(rotBase) => StoredRoster(config) = rotBase
       /\ (Distinct(rotBase) /\ rotCount < Len(rotBase))
            => StoredRoster(config) # rotBase

\* three rotations have brought a roster of three distinct initials back
C8_Witness ==
  /\ last.op = "rotate_active"
  /\ last.ok
  /\ rotCount = 3
  /\ Len(rotBase) = 3
  /\ Distinct(rotBase)
  /\ StoredRoster(config) = rotBase
  /\ StoredRoster(last.pre) # rotBase

\* keys get_authors reads up to and including the m-th initial
ReadsUpTo(inits, m) ==
  <<kDomain>> \o [i \in 1..m |-> AuthorKey(inits[i])]

\* C9: get_authors reads domain first and fails on its absence before any
\* author key is read; otherwise it looks the initials up left to right and
\* returns the error of the first failing one (AuthorNotFound(initial) for a
\* missing key, InvalidAuthor(raw) for an empty or malformed record) without
\* reading later initials and without partial results; when none fails it
\* returns one Author per entry in input order, duplicates resolved alike
C9_GetAuthorsFailFast ==
  (last.op = "get_authors")
  => LET cfg == last.pre
         inits == last.inits
         failing == {i \in 1..Len(inits) : FailsResolution(cfg, inits[i])}
     IN IF kDomain \notin DOMAIN cfg
        THEN /\ ~last.ok
             /\ last.err = ErrMsg(kDomain)
             /\ last.reads = <<kDomain>>
             /\ last.authors = <<>>
        ELSE IF failing # {}
        THEN LET m == CHOOSE i \in failing : \A j \in failing : i <= j
                 key == AuthorKey(inits[m])
             IN /\ ~last.ok
                /\ last.err = IF key \notin DOMAIN cfg
                              THEN ErrAuthorNotFound(inits[m])
                              ELSE ErrInvalidAuthor(cfg[key])
                /\ last.reads = ReadsUpTo(inits, m)
                /\ last.authors = <<>>
        ELSE /\ last.ok
             /\ Len(last.authors) = Len(inits)
             /\ \A i \in 1..Len(inits) :
                  last.authors[i] = AuthorOf(cfg, inits[i])
             /\ \A i, j \in 1..Len(inits) :
                  inits[i] = inits[j] => last.authors[i] = last.authors[j]
             /\ last.reads = ReadsUpTo(inits, Len(inits))

\* a get_authors of two initials that both fail, for different reasons
C9_Witness ==
  /\ last.op = "get_authors"
  /\ kDomain \in DOMAIN last.pre
  /\ Len(last.inits) = 2
  /\ AuthorKey(last.inits[1]) \in DOMAIN last.pre
  /\ FailsResolution(last.pre, last.inits[1])
  /\ AuthorKey(last.inits[2]) \notin DOMAIN last.pre
  /\ last.err.kind = "InvalidAuthor"
  /\ Len(last.reads) = 2

\* the email author() derives from a trimmed seed
EmailFor(seed, domain) ==
  IF Contains(seed, AT) THEN seed ELSE FormatEmail(seed, domain)

\* the text after the first ';' of raw, whole
AfterFirst(raw) == SubSeq(raw, FirstIndex(raw, SEMICOLON) + 1, Len(raw))

\* the text before the first ';' of raw
BeforeFirst(raw) == SubSeq(raw, 1, FirstIndex(raw, SEMICOLON) - 1)

\* the text between the first ';' of raw and the next one, or the end
SecondField(raw) ==
  LET rest == AfterFirst(raw)
  IN IF Contains(rest, SEMICOLON) THEN BeforeFirst(rest) ELSE rest

\* C10 as stated: author() splits raw at the first ';' only, the whole
\* remainder being the email seed
C10_SplitAtFirst ==
  (last.op = "author")
  => LET raw == last.raw
     IN IF \/ ~Contains(raw, SEMICOLON)
           \/ IsEmpty(Trim(BeforeFirst(raw)))
           \/ IsEmpty(Trim(AfterFirst(raw)))
        THEN ~last.ok /\ last.err = ErrInvalidAuthor(raw)
        ELSE /\ last.ok
             /\ last.author.name = Trim(BeforeFirst(raw))
             /\ last.author.email = EmailFor(Trim(AfterFirst(raw)), last.domain)

\* C10 amended: author() splits raw at every ';': it fails with
\* InvalidAuthor(raw) when raw has no ';', when the text before the first ';'
\* is empty after trimming, or when the text between the first ';' and the
\* next one (or the end) is empty after trimming; otherwise the name is the
\* trimmed first field, the seed the trimmed second field, whatever follows a
\* second ';' being dropped, and the email is the seed itself when it has an
\* '@' and seed@domain when it has none
C10_SplitAtEvery ==
  (last.op = "author")
  => LET raw == last.raw
     IN IF \/ ~Contains(raw, SEMICOLON)
           \/ IsEmpty(Trim(BeforeFirst(raw)))
           \/ IsEmpty(Trim(SecondField(raw)))
        THEN ~last.ok /\ last.err = ErrInvalidAuthor(raw)
        ELSE /\ last.ok
             /\ last.author.name = Trim(BeforeFirst(raw))
             /\ last.author.email = EmailFor(Trim(SecondField(raw)), last.domain)

\* author() has accepted a record with a second ';' and a seed that is an
\* address
C10_Witness ==
  /\ last.op = "author"
  /\ last.ok
  /\ Contains(AfterFirst(last.raw), SEMICOLON)
  /\ Contains(last.author.email, AT)
  /\ last.author.email = Trim(SecondField(last.raw))

====
